---- MODULE Spec2Model ----
(***************************************************************************)
(* Model of generate_output_gallery.py: a folder is scanned, its files are *)
(* copied to docs/files under collision-free names, a preview fragment is  *)
(* rendered per file and the cards are assembled into docs/index.html.     *)
(*                                                                         *)
(* Representation.                                                         *)
(*   A file name is a sequence of one-character strings.                   *)
(*   A text (file content as decoded, page fragment) is a sequence of runs *)
(*   [u |-> unit, n |-> count]: the unit, a sequence of characters,        *)
(*   repeated n times.  Raw texts have one-character units, so that texts  *)
(*   longer than the 200,000 character cap can be handled.  A fixed        *)
(*   literal of the program that holds none of & < > " ' may stand as one  *)
(*   element of a unit ("./files/", "text/plain").                         *)
(*   A byte count is a little-endian sequence of base-1024 digits.         *)
(***************************************************************************)
EXTENDS Integers, Sequences, FiniteSets, TLC

VARIABLES
    srcDir,      \* SRC_DIR, the source folder's path as a str
    srcExists,   \* SRC_DIR.exists()
    srcTree,     \* the regular files under SRC_DIR (as last present): relative path -> content
    dirs,        \* which of DOCS, FILES, ASSETS exist
    css,         \* whether site_assets/styles.css has been written
    files,       \* the directory docs/files: name -> content
    page,        \* docs/index.html
    stdout,      \* the lines printed so far
    pc,          \* position inside main()
    run,         \* number of main() invocations started
    todo,        \* main: the part of sorted(src_files) still to be processed
    cards,       \* main: the list cards
    copied,      \* history: the <<src, dst>> pairs of this run's copy loop
    prevFiles,   \* history: docs/files as it was when this run of main() began
    arg,         \* argument of the function under study (function specifications)
    result       \* its result

vars == <<srcDir, srcExists, srcTree, dirs, css, files, page, stdout, pc, run, todo,
          cards, copied, prevFiles, arg, result>>

pipelineVars == <<srcDir, srcExists, srcTree, dirs, css, files, page, stdout, run,
                  todo, cards, copied, prevFiles>>

-----------------------------------------------------------------------------
(* Bounds *)

MaxMainRuns == 2      \* invocations of main() in one behaviour
MaxFiles == 3         \* regular files under the source folder
MaxTextRuns == 4      \* runs per generated JSON input text
MaxSizeDigits == 6    \* base-1024 digits of a generated byte count

(* Program constants *)

CsvRowCap == 30
JsonCharCap == 200000
TextLineCap == 200
UnitStep == 1024
SuffixStart == 1

-----------------------------------------------------------------------------
(* Characters and texts *)

\* code points of the characters used, for str comparison
Ord(c) ==
    CASE c = "\n" -> 10 [] c = " " -> 32 [] c = "\"" -> 34 [] c = "&" -> 38
      [] c = "'" -> 39 [] c = "," -> 44 [] c = "." -> 46 [] c = "1" -> 49
      [] c = "2" -> 50 [] c = "3" -> 51 [] c = "4" -> 52 [] c = "5" -> 53
      [] c = "6" -> 54 [] c = "7" -> 55
      [] c = "<" -> 60 [] c = ">" -> 62 [] c = "J" -> 74 [] c = "N" -> 78
      [] c = "O" -> 79 [] c = "S" -> 83 [] c = "[" -> 91 [] c = "\\" -> 92
      [] c = "]" -> 93 [] c = "_" -> 95 [] c = "a" -> 97 [] c = "c" -> 99
      [] c = "d" -> 100 [] c = "e" -> 101 [] c = "f" -> 102 [] c = "g" -> 103
      [] c = "j" -> 106 [] c = "n" -> 110 [] c = "o" -> 111 [] c = "p" -> 112
      [] c = "r" -> 114 [] c = "s" -> 115 [] c = "t" -> 116 [] c = "v" -> 118
      [] c = "x" -> 120

\* str.lower() on one character
LowerChar(c) ==
    CASE c = "J" -> "j" [] c = "N" -> "n" [] c = "O" -> "o" [] c = "S" -> "s"
      [] OTHER -> c

Lower(s) == [i \in DOMAIN s |-> LowerChar(s[i])]

Run(c, n) == [u |-> <<c>>, n |-> n]

\* the text of a str given as a sequence of characters
StrText(s) == [i \in DOMAIN s |-> Run(s[i], 1)]

\* a fixed literal of the program, free of & < > " '
Literal(s) == << [u |-> <<s>>, n |-> 1] >>

RECURSIVE TLen(_)
TLen(t) == IF t = <<>> THEN 0 ELSE Len(t[1].u) * t[1].n + TLen(Tail(t))

\* t[:k] for a raw text (one-character units)
RECURSIVE Slice(_, _)
Slice(t, k) ==
    IF t = <<>> \/ k <= 0 THEN <<>>
    ELSE IF t[1].n >= k THEN << [u |-> t[1].u, n |-> k] >>
    ELSE <<t[1]>> \o Slice(Tail(t), k - t[1].n)

\* the same string, with empty runs dropped and equal neighbours merged
RECURSIVE Norm(_)
Norm(t) ==
    IF t = <<>> THEN <<>>
    ELSE IF t[1].n = 0 \/ t[1].u = <<>> THEN Norm(Tail(t))
    ELSE LET r == Norm(Tail(t))
         IN  IF r # <<>> /\ r[1].u = t[1].u
             THEN << [u |-> t[1].u, n |-> t[1].n + r[1].n] >> \o Tail(r)
             ELSE <<t[1]>> \o r

RECURSIVE ReplaceUnit(_, _, _)
ReplaceUnit(u, from, to) ==
    IF u = <<>> THEN <<>>
    ELSE (IF u[1] = from THEN to ELSE <<u[1]>>) \o ReplaceUnit(Tail(u), from, to)

\* str.replace(from, to) for a one-character from
Replace(t, from, to) ==
    [i \in DOMAIN t |-> [u |-> ReplaceUnit(t[i].u, from, to), n |-> t[i].n]]

AmpEntity == <<"&", "a", "m", "p", ";">>
LtEntity == <<"&", "l", "t", ";">>
GtEntity == <<"&", "g", "t", ";">>
QuotEntity == <<"&", "q", "u", "o", "t", ";">>
AposEntity == <<"&", "#", "3", "9", ";">>

esc(s) ==
    Replace(Replace(Replace(Replace(Replace(s, "&", AmpEntity), "<", LtEntity),
        ">", GtEntity), "\"", QuotEntity), "'", AposEntity)

-----------------------------------------------------------------------------
(* Names and paths (pathlib) *)

\* 1-based position of the last "." of a name, 0 when there is none
RECURSIVE LastDot(_, _)
LastDot(name, i) ==
    IF i = 0 THEN 0 ELSE IF name[i] = "." THEN i ELSE LastDot(name, i - 1)

\* PurePath.suffix: name[i:] when 0 < i < len(name) - 1 for i = name.rfind(".")
Suffix(name) ==
    LET p == LastDot(name, Len(name))
    IN  IF 1 < p /\ p < Len(name) THEN SubSeq(name, p, Len(name)) ELSE <<>>

\* PurePath.stem
Stem(name) ==
    LET p == LastDot(name, Len(name))
    IN  IF 1 < p /\ p < Len(name) THEN SubSeq(name, 1, p - 1) ELSE name

\* path.suffix.lower().lstrip(".")
RECURSIVE LStripDot(_)
LStripDot(s) == IF s # <<>> /\ s[1] = "." THEN LStripDot(Tail(s)) ELSE s

Ext(name) == LStripDot(Lower(Suffix(name)))

\* str < str
RECURSIVE StrLess(_, _)
StrLess(a, b) ==
    IF b = <<>> THEN FALSE
    ELSE IF a = <<>> THEN TRUE
    ELSE IF a[1] = b[1] THEN StrLess(Tail(a), Tail(b))
    ELSE Ord(a[1]) < Ord(b[1])

\* Path < Path: the parts are compared as lists of str
RECURSIVE PathLess(_, _)
PathLess(p, q) ==
    IF q = <<>> THEN FALSE
    ELSE IF p = <<>> THEN TRUE
    ELSE IF p[1] = q[1] THEN PathLess(Tail(p), Tail(q))
    ELSE StrLess(p[1], q[1])

BaseName(p) == p[Len(p)]

RECURSIVE sorted_Descending(_)
sorted_Descending(S) ==
    IF S = {} THEN <<>>
    ELSE LET m == CHOOSE x \in S : \A y \in S \ {x} : PathLess(y, x)
         IN  <<m>> \o sorted_Descending(S \ {m})

\* sorted(src_files)
RECURSIVE sorted(_)
sorted(S) ==
    IF S = {} THEN <<>>
    ELSE LET m == CHOOSE x \in S : \A y \in S \ {x} : PathLess(x, y)
         IN  <<m>> \o sorted(S \ {m})

DigitChar(d) ==
    CASE d = 0 -> "0" [] d = 1 -> "1" [] d = 2 -> "2" [] d = 3 -> "3"
      [] d = 4 -> "4" [] d = 5 -> "5" [] d = 6 -> "6" [] d = 7 -> "7"
      [] d = 8 -> "8" [] d = 9 -> "9"

\* str(i) for i >= 0
RECURSIVE Dec(_)
Dec(i) == IF i < 10 THEN <<DigitChar(i)>> ELSE Dec(i \div 10) \o <<DigitChar(i % 10)>>

\* f"{src.stem}_{i}{src.suffix}"
SuffixedName(name, i) == Stem(name) \o <<"_">> \o Dec(i) \o Suffix(name)

FreeName_Overwrite(existing, name, dst, i) == dst

\* the while loop of main: the first of dst, name_1, name_2, ... that does not exist
RECURSIVE FreeName(_, _, _, _)
FreeName(existing, name, dst, i) ==
    IF dst \in existing
    THEN FreeName(existing, name, SuffixedName(name, i), i + 1)
    ELSE dst

DestName_FromZero(existing, name) == FreeName(existing, name, name, 0)

\* dst = FILES / src.name; i = 1; while dst.exists(): ...
DestName(existing, name) == FreeName(existing, name, name, SuffixStart)

-----------------------------------------------------------------------------
(* human_size *)

units == <<"B", "KB", "MB", "GB", "TB">>

\* the digits of n >= 0 in base 1024, lowest first
RECURSIVE ToDigits(_)
ToDigits(n) == IF n < UnitStep THEN <<n>> ELSE <<n % UnitStep>> \o ToDigits(n \div UnitStep)

\* x = float(n) / 1024^k is held as [d |-> digits of n, k |-> k];  x < 1024
BelowStep(x) == \A i \in DOMAIN x.d : i > x.k + 1 => x.d[i] = 0

\* int(x)
RECURSIVE IntPart(_, _)
IntPart(x, i) ==
    IF i > Len(x.d) THEN 0 ELSE x.d[i] + UnitStep * IntPart(x, i + 1)

\* ten times the fraction d[1..k] / 1024^k: <<integer part, remaining fraction digits>>
RECURSIVE MulTen(_, _, _, _)
MulTen(d, k, i, carry) ==
    IF i > k \/ i > Len(d) THEN <<carry, <<>> >>
    ELSE LET v == d[i] * 10 + carry
             r == MulTen(d, k, i + 1, v \div UnitStep)
         IN  <<r[1], <<v % UnitStep>> \o r[2]>>

\* f"{x:.1f}{u}": x rounded to one decimal, ties to even, as [int, tenth, unit]
Format(x, u) ==
    LET m == MulTen(x.d, x.k, 1, 0)
        t == m[1]
        r == m[2]
        top == IF r = <<>> THEN 0 ELSE r[Len(r)]
        low == \E i \in DOMAIN r : i < Len(r) /\ r[i] # 0
        up == top > UnitStep \div 2
              \/ (top = UnitStep \div 2 /\ (low \/ t % 2 = 1))
        t2 == IF up THEN t + 1 ELSE t
        ip == IntPart(x, x.k + 1)
    IN  [int |-> IF t2 = 10 THEN ip + 1 ELSE ip,
         tenth |-> IF t2 = 10 THEN 0 ELSE t2,
         unit |-> u]

NoResult == [int |-> -1, tenth |-> -1, unit |-> "None"]

RECURSIVE SizeLoop_NoLastUnit(_, _)
SizeLoop_NoLastUnit(x, j) ==
    IF j > Len(units) THEN NoResult
    ELSE IF BelowStep(x) THEN Format(x, units[j])
    ELSE SizeLoop_NoLastUnit([d |-> x.d, k |-> x.k + 1], j + 1)

\* for u in units: if x < 1024 or u == units[-1]: return ...; x /= 1024
RECURSIVE SizeLoop(_, _)
SizeLoop(x, j) ==
    IF j > Len(units) THEN NoResult
    ELSE IF BelowStep(x) \/ units[j] = units[Len(units)] THEN Format(x, units[j])
    ELSE SizeLoop([d |-> x.d, k |-> x.k + 1], j + 1)

human_size(n) == SizeLoop([d |-> n, k |-> 0], 1)

-----------------------------------------------------------------------------
(* Library functions used by preview_for, on the inputs of the model *)

Min(a, b) == IF a < b THEN a ELSE b

\* str.splitlines(), "\n" being the only line boundary of the alphabet
RECURSIVE SplitLines(_, _)
SplitLines(t, cur) ==
    IF t = <<>> THEN (IF cur = <<>> THEN <<>> ELSE <<cur>>)
    ELSE IF t[1].u = <<"\n">>
    THEN <<cur>> \o [i \in 1..(t[1].n - 1) |-> <<>>] \o SplitLines(Tail(t), <<>>)
    ELSE SplitLines(Tail(t), Append(cur, t[1]))

\* sep.join(lines)
RECURSIVE Join(_, _)
Join(lines, sep) ==
    IF lines = <<>> THEN <<>>
    ELSE IF Len(lines) = 1 THEN lines[1]
    ELSE lines[1] \o sep \o Join(Tail(lines), sep)

\* JSON texts are built from these characters; the first four are structural,
\* the others may only occur inside a string
JsonStructural == {"[", "]", ",", "\""}

\* the text as a sequence of items: structural characters one by one, a run of
\* any other character as one item (the grammar treats the run uniformly)
RECURSIVE Items(_)
Items(t) ==
    IF t = <<>> THEN <<>>
    ELSE IF t[1].u[1] \in JsonStructural
    THEN [i \in 1..t[1].n |-> Run(t[1].u[1], 1)] \o Items(Tail(t))
    ELSE <<t[1]>> \o Items(Tail(t))

JStr(s) == [t |-> "str", s |-> s, items |-> <<>>]
JArr(items) == [t |-> "arr", s |-> <<>>, items |-> items]
JFail == [ok |-> FALSE, val |-> JStr(<<>>), next |-> 0]

\* index of the first '"' at or after i, 0 when there is none
RECURSIVE NextQuote(_, _)
NextQuote(it, i) ==
    IF i > Len(it) THEN 0
    ELSE IF it[i].u = <<"\"">> THEN i ELSE NextQuote(it, i + 1)

\* json.loads: value := string | array;  array := "[" "]" | "[" value ("," value)* "]"
RECURSIVE ParseValue(_, _), ParseElems(_, _, _)
ParseValue(it, i) ==
    IF i > Len(it) THEN JFail
    ELSE IF it[i].u = <<"\"">>
    THEN LET j == NextQuote(it, i + 1)
         IN  IF j = 0 THEN JFail
             ELSE [ok |-> TRUE, val |-> JStr(SubSeq(it, i + 1, j - 1)), next |-> j + 1]
    ELSE IF it[i].u = <<"[">>
    THEN IF i + 1 <= Len(it) /\ it[i + 1].u = <<"]">>
         THEN [ok |-> TRUE, val |-> JArr(<<>>), next |-> i + 2]
         ELSE ParseElems(it, i + 1, <<>>)
    ELSE JFail

ParseElems(it, i, acc) ==
    LET v == ParseValue(it, i)
    IN  IF ~v.ok \/ v.next > Len(it) THEN JFail
        ELSE IF it[v.next].u = <<",">> THEN ParseElems(it, v.next + 1, Append(acc, v.val))
        ELSE IF it[v.next].u = <<"]">>
        THEN [ok |-> TRUE, val |-> JArr(Append(acc, v.val)), next |-> v.next + 1]
        ELSE JFail

\* json.loads(raw): the whole text must be one value
loads(raw) ==
    LET it == Items(raw)
        v == ParseValue(it, 1)
    IN  IF v.ok /\ v.next = Len(it) + 1 THEN v ELSE JFail

Indent(level) == IF level = 0 THEN <<>> ELSE <<Run(" ", 2 * level)>>

\* json.dumps(data, ensure_ascii=False, indent=2)
RECURSIVE dumps(_, _), DumpItems(_, _)
dumps(val, level) ==
    IF val.t = "str" THEN <<Run("\"", 1)>> \o val.s \o <<Run("\"", 1)>>
    ELSE IF val.items = <<>> THEN <<Run("[", 1), Run("]", 1)>>
    ELSE <<Run("[", 1), Run("\n", 1)>> \o DumpItems(val.items, level + 1)
         \o <<Run("\n", 1)>> \o Indent(level) \o <<Run("]", 1)>>

DumpItems(items, level) ==
    IF Len(items) = 1 THEN Indent(level) \o dumps(items[1], level)
    ELSE Indent(level) \o dumps(items[1], level) \o <<Run(",", 1), Run("\n", 1)>>
         \o DumpItems(Tail(items), level)

\* A csv file as csv.reader sees it under one encoding:
\*   recs  the records it yields (the first is the header row), each a
\*         sequence of cells;
\*   fail  0, or the number of the next() call that raises (decode error,
\*         csv.Error, I/O error);  msg  str(e) of that exception
CsvView(recs, fail, msg) == [recs |-> recs, fail |-> fail, msg |-> msg]

\* csv.field_size_limit(), the longest field csv.reader accepts
FieldLimit == 131072

\* str(e) of the csv.Error of an oversized field
FieldLimitMsg == Literal("field larger than field limit (131072)")

\* the end-of-line mark the reader processes after each line it is given
Eol == "EOL"

\* the text as the reader receives it: the delimiter, the quote and the line
\* break one by one, a run of any other character as one item, and the
\* end-of-line mark after every line
RECURSIVE CsvItems(_)
CsvItems(t) ==
    IF t = <<>> THEN <<>>
    ELSE IF t[1].u = <<"\n">>
    THEN [i \in 1..(2 * t[1].n) |-> IF i % 2 = 1 THEN Run("\n", 1) ELSE Run(Eol, 1)]
         \o CsvItems(Tail(t))
    ELSE IF t[1].u[1] \in {",", "\""}
    THEN [i \in 1..t[1].n |-> Run(t[1].u[1], 1)] \o CsvItems(Tail(t))
    ELSE <<t[1]>> \o CsvItems(Tail(t))

CsvLines(t) ==
    LET it == CsvItems(t)
    IN  IF it # <<>> /\ it[Len(it)].u # <<Eol>> THEN Append(it, Run(Eol, 1)) ELSE it

\* the reader: parser state, field and record being built, records yielded
CsvStart ==
    [st |-> "START_RECORD", field |-> <<>>, flen |-> 0, rec |-> <<>>, recs |-> <<>>,
     failed |-> FALSE]

\* parse_add_char, for a run of equal characters
AddChar(s, it, st) ==
    IF s.flen + it.n > FieldLimit THEN [s EXCEPT !.failed = TRUE]
    ELSE [s EXCEPT !.field = Append(@, it), !.flen = @ + it.n, !.st = st]

\* parse_save_field
SaveField(s, st) ==
    [s EXCEPT !.rec = Append(@, s.field), !.field = <<>>, !.flen = 0, !.st = st]

\* parse_process_char of the csv module, excel dialect, strict off
CsvStep(s, it) ==
    LET c == it.u[1]
    IN  CASE s.st = "START_RECORD" /\ c = Eol -> s
          [] s.st = "START_RECORD" /\ c = "\n" -> [s EXCEPT !.st = "EAT_CRNL"]
          [] s.st = "START_FIELD" /\ c = Eol -> SaveField(s, "START_RECORD")
          [] s.st = "START_FIELD" /\ c = "\n" -> SaveField(s, "EAT_CRNL")
          [] s.st \in {"START_RECORD", "START_FIELD"} /\ c = "\"" ->
                [s EXCEPT !.st = "IN_QUOTED_FIELD"]
          [] s.st \in {"START_RECORD", "START_FIELD"} /\ c = "," ->
                SaveField(s, "START_FIELD")
          [] s.st \in {"START_RECORD", "START_FIELD"} /\ c \notin {Eol, "\n", "\"", ","} ->
                AddChar(s, it, "IN_FIELD")
          [] s.st = "IN_FIELD" /\ c = Eol -> SaveField(s, "START_RECORD")
          [] s.st = "IN_FIELD" /\ c = "\n" -> SaveField(s, "EAT_CRNL")
          [] s.st = "IN_FIELD" /\ c = "," -> SaveField(s, "START_FIELD")
          [] s.st = "IN_FIELD" /\ c \notin {Eol, "\n", ","} -> AddChar(s, it, "IN_FIELD")
          [] s.st = "IN_QUOTED_FIELD" /\ c = Eol -> s
          [] s.st = "IN_QUOTED_FIELD" /\ c = "\"" -> [s EXCEPT !.st = "QUOTE_IN_QUOTED_FIELD"]
          [] s.st = "IN_QUOTED_FIELD" /\ c \notin {Eol, "\""} ->
                AddChar(s, it, "IN_QUOTED_FIELD")
          [] s.st = "QUOTE_IN_QUOTED_FIELD" /\ c = "\"" -> AddChar(s, it, "IN_QUOTED_FIELD")
          [] s.st = "QUOTE_IN_QUOTED_FIELD" /\ c = "," -> SaveField(s, "START_FIELD")
          [] s.st = "QUOTE_IN_QUOTED_FIELD" /\ c = "\n" -> SaveField(s, "EAT_CRNL")
          [] s.st = "QUOTE_IN_QUOTED_FIELD" /\ c = Eol -> SaveField(s, "START_RECORD")
          [] s.st = "QUOTE_IN_QUOTED_FIELD" /\ c \notin {Eol, "\n", "\"", ","} ->
                AddChar(s, it, "IN_FIELD")
          [] s.st = "EAT_CRNL" /\ c = Eol -> [s EXCEPT !.st = "START_RECORD"]
          [] s.st = "EAT_CRNL" /\ c = "\n" -> s
          [] s.st = "EAT_CRNL" /\ c \notin {Eol, "\n"} -> [s EXCEPT !.failed = TRUE]

\* Reader.__next__ over the whole input: a record is yielded when a line ends
\* in START_RECORD, and at the end of the input when a field is pending
RECURSIVE CsvScan(_, _, _)
CsvScan(items, i, s) ==
    IF s.failed THEN s
    ELSE IF i > Len(items)
    THEN IF s.flen # 0 \/ s.st = "IN_QUOTED_FIELD"
         THEN [s EXCEPT !.recs = Append(@, Append(s.rec, s.field))]
         ELSE s
    ELSE LET n == CsvStep(s, items[i])
         IN  IF ~n.failed /\ items[i].u = <<Eol>> /\ n.st = "START_RECORD"
             THEN CsvScan(items, i + 1, [n EXCEPT !.recs = Append(@, n.rec), !.rec = <<>>])
             ELSE CsvScan(items, i + 1, n)

\* csv.reader(f) over the decoded text t, as a view
CsvRead(t) ==
    LET s == CsvScan(CsvLines(t), 1, CsvStart)
    IN  IF s.failed THEN CsvView(s.recs, Len(s.recs) + 1, FieldLimitMsg)
        ELSE CsvView(s.recs, 0, <<>>)

\* header = next(rd, []) or []
ReadHeader(view) ==
    IF view.fail = 1 THEN [raised |-> TRUE, header |-> <<>>]
    ELSE IF view.recs = <<>> THEN [raised |-> FALSE, header |-> <<>>]
    ELSE [raised |-> FALSE, header |-> view.recs[1]]

\* for i, r in enumerate(rd): if i>=30: break; rows.append(r)
RECURSIVE RowLoop(_, _, _)
RowLoop(view, i, rows) ==
    IF view.fail = i + 2 THEN [raised |-> TRUE, rows |-> rows]
    ELSE IF i + 2 > Len(view.recs) THEN [raised |-> FALSE, rows |-> rows]
    ELSE IF i >= CsvRowCap THEN [raised |-> FALSE, rows |-> rows]
    ELSE RowLoop(view, i + 1, Append(rows, view.recs[i + 2]))

\* one "with path.open(...)" block of preview_for; rows and header are the
\* variables of preview_for, shared by both blocks
ReadAttempt(view, header, rows) ==
    LET h == ReadHeader(view)
        l == RowLoop(view, 0, rows)
    IN  IF h.raised THEN [raised |-> TRUE, header |-> header, rows |-> rows]
        ELSE [raised |-> l.raised, header |-> h.header, rows |-> l.rows]

-----------------------------------------------------------------------------
(* preview_for *)

\* A file content: text is the content as read_text(errors="replace") gives
\* it (one byte per character in the alphabet used), utf8 and sig are the csv
\* views of the same bytes under encoding="utf-8" and "utf-8-sig".
Content(text, utf8, sig) == [text |-> text, utf8 |-> utf8, sig |-> sig]

\* U+FEFF, the byte order mark, three bytes in utf-8
Bom == "U+FEFF"

RECURSIVE UnitBytes(_)
UnitBytes(u) ==
    IF u = <<>> THEN 0 ELSE (IF u[1] = Bom THEN 3 ELSE 1) + UnitBytes(Tail(u))

\* dst.stat().st_size: the length of the content in bytes
RECURSIVE ByteLen(_)
ByteLen(t) == IF t = <<>> THEN 0 ELSE UnitBytes(t[1].u) * t[1].n + ByteLen(Tail(t))

ImageExts ==
    { <<"p", "n", "g">>, <<"j", "p", "g">>, <<"j", "p", "e", "g">>,
      <<"g", "i", "f">>, <<"s", "v", "g">>, <<"w", "e", "b", "p">> }
TextExts == { <<"t", "x", "t">>, <<"l", "o", "g">>, <<"m", "d">> }

\* HTML fragments, by their variable parts
Frag(kind, src, alt, head, rows, body) ==
    [kind |-> kind, src |-> src, alt |-> alt, head |-> head, rows |-> rows,
     note |-> Len(rows), body |-> body]

EscRow(r) == [i \in DOMAIN r |-> esc(r[i])]

\* the csv branch
CsvPreview(c) ==
    LET a1 == ReadAttempt(c.utf8, <<>>, <<>>)
        a2 == ReadAttempt(c.sig, a1.header, a1.rows)
        a == IF a1.raised THEN a2 ELSE a1
    IN  IF a1.raised /\ a2.raised
        THEN Frag("csverr", <<>>, <<>>, <<>>, <<>>, esc(c.sig.msg))
        ELSE Frag("table", <<>>, <<>>, EscRow(a.header),
                  [i \in DOMAIN a.rows |-> EscRow(a.rows[i])], <<>>)

JsonFallback_NoCap(raw) == raw

\* path.read_text(encoding="utf-8", errors="replace")[:200_000]
JsonFallback(raw) == Slice(raw, JsonCharCap)

\* the json branch
JsonPreview(c) ==
    LET v == loads(c.text)
        pretty == IF v.ok THEN dumps(v.val, 0) ELSE JsonFallback(c.text)
    IN  Frag("pre", <<>>, <<>>, <<>>, <<>>, esc(pretty))

\* the txt/log/md branch; the separator "\\n" is a backslash and an n
TextPreview(c) ==
    LET lines == SplitLines(c.text, <<>>)
        txt == SubSeq(lines, 1, Min(TextLineCap, Len(lines)))
    IN  Frag("pre", <<>>, <<>>, <<>>, <<>>,
             esc(Join(txt, <<Run("\\", 1), Run("n", 1)>>)))

preview_for(name, c, rel_href) ==
    LET ext == Ext(name)
    IN  IF ext \in ImageExts
        THEN Frag("img", rel_href, esc(StrText(name)), <<>>, <<>>, <<>>)
        ELSE IF ext = <<"p", "d", "f">>
        THEN Frag("pdf", rel_href, <<>>, <<>>, <<>>, <<>>)
        ELSE IF ext = <<"c", "s", "v">> THEN CsvPreview(c)
        ELSE IF ext = <<"j", "s", "o", "n">> THEN JsonPreview(c)
        ELSE IF ext \in TextExts THEN TextPreview(c)
        ELSE Frag("none", <<>>, <<>>, <<>>, <<>>, <<>>)

-----------------------------------------------------------------------------
(* main *)

\* mimetypes.guess_type(dst.name)[0] or "application/octet-stream", for the
\* extensions of the model
MimeKind(name) ==
    LET e == Ext(name)
    IN  CASE e = <<"t", "x", "t">> -> Literal("text/plain")
          [] e = <<"p", "n", "g">> -> Literal("image/png")
          [] e = <<"p", "d", "f">> -> Literal("application/pdf")
          [] e = <<"c", "s", "v">> -> Literal("text/csv")
          [] e = <<"j", "s", "o", "n">> -> Literal("application/json")
          [] OTHER -> Literal("application/octet-stream")

\* rel = f"./files/{dst.name}"  (src is the source file's base name)
Rel(src, dst) == Literal("./files/") \o StrText(dst)

\* the card appended for one destination file
Card(src, dst, c) ==
    [badge |-> esc(IF Ext(dst) = <<>> THEN Literal("file") ELSE StrText(Ext(dst))),
     name |-> esc(StrText(dst)),
     size |-> human_size(ToDigits(ByteLen(c.text))),
     mime |-> esc(MimeKind(dst)),
     prev |-> preview_for(dst, c, Rel(src, dst)),
     href |-> Rel(src, dst)]

NoPage == [kind |-> "none", src |-> <<>>, updated |-> 0, cards |-> <<>>, note |-> FALSE]

NotFoundPage_Raw(dir) ==
    [kind |-> "notfound", src |-> StrText(dir), updated |-> 0,
     cards |-> <<>>, note |-> FALSE]

\* the page written when SRC_DIR does not exist
NotFoundPage(dir) ==
    [kind |-> "notfound", src |-> esc(StrText(dir)), updated |-> 0,
     cards |-> <<>>, note |-> FALSE]

\* html_page; the grid holds the cards, or the note when there are none
GalleryPage(dir, cs, now) ==
    [kind |-> "gallery", src |-> esc(StrText(dir)), updated |-> now,
     cards |-> cs, note |-> (cs = <<>>)]

Empty == << >>

\* dst.write_bytes(src.read_bytes()) into the directory f
WriteFile(f, name, c) ==
    [x \in DOMAIN f \cup {name} |-> IF x = name THEN c ELSE f[x]]

-----------------------------------------------------------------------------
(* The source folders and output directories the model starts from *)

T(s) == StrText(s)
\* a file without byte order mark: both encodings decode it to the same text
Plain(t) == Content(t, CsvRead(t), CsvRead(t))

\* str(e) of the UnicodeDecodeError of a file that starts with the byte 0xff
DecodeMsg ==
    T(<<"'">>) \o Literal("utf-8") \o T(<<"'">>) \o Literal(" codec can")
    \o T(<<"'">>) \o Literal("t decode byte 0xff in position 0: invalid start byte")

\* a csv file that reads at the first attempt
CsvGood == Plain(T(<<"<", "a", ">", ",", "&", "\n", "x", ",", "'", "\n">>))

\* more "x\n" lines than the csv field size limit (131072) has characters
ManyLines == 70000

\* a csv file whose first read raises after one data row and whose retry
\* reads.  Under utf-8 the byte order mark makes the header an unquoted field,
\* and the quote of the third line opens a field that outgrows the field size
\* limit; under utf-8-sig the header is a quoted field that this quote closes,
\* and the lines after it are records (the view lists those next() can reach).
CsvRetry ==
    Content(<<Run(Bom, 1), Run("\"", 1), Run("a", 1), Run("\n", 1), Run("r", 1),
              Run("\n", 1), Run("\"", 1), [u |-> <<"x", "\n">>, n |-> ManyLines]>>,
            CsvView(<< <<Literal(Bom) \o T(<<"\"", "a">>)>>, <<T(<<"r">>)>> >>, 3, FieldLimitMsg),
            CsvView(<< <<T(<<"a", "\n", "r", "\n", "x">>)>> >>
                    \o [j \in 1..(CsvRowCap + 1) |-> <<T(<<"x">>)>>], 0, <<>>))

NameATxt == <<"a", ".", "t", "x", "t">>
NameA1Txt == <<"a", "_", "1", ".", "t", "x", "t">>

\* the candidate source files: <<path relative to SRC_DIR, content>>
Candidates ==
    { << <<NameATxt>>, Plain(T(<<"<", "x", ">", "\n", "&">>)) >>,
      << <<<<"d">>, NameATxt>>, Plain(T(<<"\"", "x", "'">>)) >>,
      << <<<<"e">>, NameATxt>>, Plain(T(<<"x", "\n", "\n", "x", "\n">>)) >>,
      << <<NameA1Txt>>, Plain(T(<<"a", "1">>)) >>,
      << <<<<"d">>, <<"<", "&", "\"", "'", ">", ".", "p", "n", "g">>>>, Plain(T(<<"g">>)) >>,
      << <<<<"d">>, <<"\"", ".", "p", "d", "f">>>>, Plain(T(<<"f">>)) >>,
      << <<<<"e">>, <<"r", ".", "c", "s", "v">>>>, CsvGood >>,
      << <<<<"e">>, <<"c", ".", "c", "s", "v">>>>, CsvRetry >>,
      << <<<<"e">>, <<"j", ".", "J", "S", "O", "N">>>>, Plain(T(<<"[", "\"", "<", "\"", ",">>)) >>,
      << <<<<"e">>, <<"v", ".", "j", "s", "o", "n">>>>,
         Plain(T(<<"[", "\"", "<", "\"", ",", "\"", "&", "\"", "]">>)) >> ,
      << <<<<"n">>>>, Plain(T(<<"n">>)) >> }

TreeOf(S) == [p \in {x[1] : x \in S} |-> (CHOOSE x \in S : x[1] = p)[2]]

SourceTrees == {TreeOf(S) : S \in {X \in SUBSET Candidates : Cardinality(X) <= MaxFiles}}

SourceDirs == { <<"u">>, <<"<", "&", ">">> }

Minutes == {1, 2}

NoCall == "none"

Init ==
    /\ srcDir \in SourceDirs
    /\ srcExists \in BOOLEAN
    /\ srcTree \in (IF srcExists THEN SourceTrees ELSE {Empty})
    /\ dirs = {}
    /\ css = FALSE
    /\ files = Empty
    /\ page = NoPage
    /\ stdout = <<>>
    /\ pc = "start"
    /\ run = 0
    /\ todo = <<>>
    /\ cards = <<>>
    /\ copied = <<>>
    /\ prevFiles = Empty
    /\ arg = NoCall
    /\ result = NoCall

\* ensure_dirs(), at the entry of main()
EnsureDirs ==
    /\ pc \in {"start", "done"}
    /\ run < MaxMainRuns
    /\ run' = run + 1
    /\ dirs' = dirs \cup {"docs", "files", "site_assets"}
    /\ prevFiles' = files
    /\ copied' = <<>>
    /\ cards' = <<>>
    /\ todo' = <<>>
    /\ pc' = "css"
    /\ UNCHANGED <<srcDir, srcExists, srcTree, css, files, page, stdout, arg, result>>

\* write_css()
WriteCss ==
    /\ pc = "css"
    /\ css' = TRUE
    /\ pc' = "check"
    /\ UNCHANGED <<srcDir, srcExists, srcTree, dirs, files, page, stdout, run, todo,
                   cards, copied, prevFiles, arg, result>>

\* if not SRC_DIR.exists(): write the note page, print, return
SourceNotFound ==
    /\ pc = "check"
    /\ ~srcExists
    /\ page' = NotFoundPage(srcDir)
    /\ stdout' = Append(stdout, <<"Source folder not found", srcDir>>)
    /\ pc' = "done"
    /\ UNCHANGED <<srcDir, srcExists, srcTree, dirs, css, files, run, todo, cards,
                   copied, prevFiles, arg, result>>

\* src_files = [p for p in SRC_DIR.rglob("*") if p.is_file()]; cards = []
Collect ==
    /\ pc = "check"
    /\ srcExists
    /\ todo' = sorted(DOMAIN srcTree)
    /\ cards' = <<>>
    /\ pc' = "loop"
    /\ UNCHANGED <<srcDir, srcExists, srcTree, dirs, css, files, page, stdout, run,
                   copied, prevFiles, arg, result>>

\* one iteration of "for src in sorted(src_files)"
CopyAndCard ==
    /\ pc = "loop"
    /\ todo # <<>>
    /\ LET src == todo[1]
           dst == DestName(DOMAIN files, BaseName(src))
           c == srcTree[src]
       IN  /\ files' = WriteFile(files, dst, c)
           /\ cards' = Append(cards, Card(BaseName(src), dst, files'[dst]))
           /\ copied' = Append(copied, <<src, dst>>)
    /\ todo' = Tail(todo)
    /\ UNCHANGED <<srcDir, srcExists, srcTree, dirs, css, page, stdout, pc, run,
                   prevFiles, arg, result>>

\* the page is assembled and written, the status line printed
WritePage ==
    /\ pc = "loop"
    /\ todo = <<>>
    /\ \E now \in Minutes : page' = GalleryPage(srcDir, cards, now)
    /\ stdout' = Append(stdout, <<"[OK] Wrote docs/index.html from", srcDir>>)
    /\ pc' = "done"
    /\ UNCHANGED <<srcDir, srcExists, srcTree, dirs, css, files, run, todo, cards,
                   copied, prevFiles, arg, result>>

\* between two invocations, the source folder is removed
SourceRemoved ==
    /\ pc = "done"
    /\ srcExists
    /\ run < MaxMainRuns
    /\ srcExists' = FALSE
    /\ pc' = "start"
    /\ UNCHANGED <<srcDir, srcTree, dirs, css, files, page, stdout, run, todo, cards,
                   copied, prevFiles, arg, result>>

Next ==
    \/ EnsureDirs
    \/ SourceRemoved
    \/ WriteCss
    \/ SourceNotFound
    \/ Collect
    \/ CopyAndCard
    \/ WritePage

Spec == Init /\ [][Next]_vars

-----------------------------------------------------------------------------
(* The pipeline over a folder holding a generated json file *)

JsonChars == {"[", "]", ",", "\"", "<", "&"}

JsonRuns ==
    {Run(c, 1) : c \in JsonChars} \cup {Run("<", JsonCharCap), Run("<", JsonCharCap + 1)}

JsonTexts ==
    UNION {[1..k -> JsonRuns] : k \in 0..MaxTextRuns}
    \cup { T(<<"[", "[", "]", ",", "\"", "<", "\"", "]">>),
           T(<<"[", "\"", "&", "\"", ",", "[", "\"", "\"", "]", "]">>),
           <<Run("\"", 1), Run("<", JsonCharCap + 1), Run("\"", 1)>>,
           T(<<"[", "\"", "&", "\"", ",", "]">>) }

JsonPath == << <<"e">>, <<"j", ".", "j", "s", "o", "n">> >>
AfterJsonPath == << <<"e">>, <<"x", ".", "t", "x", "t">> >>

JsonTree(t) ==
    [p \in {JsonPath, AfterJsonPath} |->
        IF p = JsonPath THEN Plain(t) ELSE Plain(T(<<"x">>))]

InitJson ==
    /\ srcDir = <<"u">>
    /\ srcExists \in BOOLEAN
    /\ srcTree \in (IF srcExists THEN {JsonTree(t) : t \in JsonTexts} ELSE {Empty})
    /\ dirs = {}
    /\ css = FALSE
    /\ files = Empty
    /\ page = NoPage
    /\ stdout = <<>>
    /\ pc = "start"
    /\ run = 0
    /\ todo = <<>>
    /\ cards = <<>>
    /\ copied = <<>>
    /\ prevFiles = Empty
    /\ arg = NoCall
    /\ result = NoCall

SpecJson == InitJson /\ [][Next]_vars

-----------------------------------------------------------------------------
(* preview_for applied to csv files, human_size applied to byte counts *)

PipelineIdle ==
    /\ srcDir = <<"u">>
    /\ srcExists = FALSE
    /\ srcTree = Empty
    /\ dirs = {}
    /\ css = FALSE
    /\ files = Empty
    /\ page = NoPage
    /\ stdout = <<>>
    /\ run = 0
    /\ todo = <<>>
    /\ cards = <<>>
    /\ copied = <<>>
    /\ prevFiles = Empty

\* numbers of records (header row included) of the generated csv views
RecCounts == {0, 1, 2, CsvRowCap, CsvRowCap + 1, CsvRowCap + 2, 51}

\* the view with k records read under one encoding; record j has the one cell c^j
GenView(c, k, fail) ==
    CsvView([j \in 1..k |-> <<Literal(c) \o <<Run("<", j)>> >>], fail, DecodeMsg)

CsvName == <<"r", ".", "c", "s", "v">>

InitCsv ==
    /\ PipelineIdle
    /\ pc = "call"
    /\ \E k1 \in RecCounts, k2 \in RecCounts :
         \E f1 \in 0..(k1 + 1), f2 \in 0..(k2 + 1) :
            arg = Content(T(<<"x">>), GenView("a", k1, f1), GenView("b", k2, f2))
    /\ result = NoCall

\* prev = preview_for(dst, rel) for a csv file
CallPreviewCsv ==
    /\ pc = "call"
    /\ result' = preview_for(CsvName, arg, Rel(CsvName, CsvName))
    /\ pc' = "return"
    /\ UNCHANGED <<pipelineVars, arg>>

NextCsv == CallPreviewCsv

SpecCsv == InitCsv /\ [][NextCsv]_vars

DigitVals == {0, 1, 51, 512, 973, 1023}

\* float(n) is exact below 2^53
ExactFloat(d) == \A i \in DOMAIN d : (i = 6 => d[i] < 8) /\ (i > 6 => d[i] = 0)

ByteCounts ==
    {d \in UNION {[1..k -> DigitVals] : k \in 1..MaxSizeDigits} : ExactFloat(d)}

InitSize ==
    /\ PipelineIdle
    /\ pc = "call"
    /\ arg \in ByteCounts
    /\ result = NoCall

\* size = human_size(...)
CallHumanSize ==
    /\ pc = "call"
    /\ result' = human_size(arg)
    /\ pc' = "return"
    /\ UNCHANGED <<pipelineVars, arg>>

NextSize == CallHumanSize

SpecSize == InitSize /\ [][NextSize]_vars

-----------------------------------------------------------------------------
(* Notions used to state the properties *)

EntityOf(c) ==
    CASE c = "&" -> AmpEntity [] c = "<" -> LtEntity [] c = ">" -> GtEntity
      [] c = "\"" -> QuotEntity [] c = "'" -> AposEntity [] OTHER -> <<c>>

RECURSIVE EscapedUnit(_)
EscapedUnit(u) == IF u = <<>> THEN <<>> ELSE EntityOf(u[1]) \o EscapedUnit(Tail(u))

\* the text with each of & < > " ' replaced by its entity, all at once
Escaped(t) == [i \in DOMAIN t |-> [u |-> EscapedUnit(t[i].u), n |-> t[i].n]]

Entities == {AmpEntity, LtEntity, GtEntity, QuotEntity, AposEntity}

\* no raw < > " ' in the unit, and every & opens an entity
SafeUnit(u) ==
    \A i \in DOMAIN u :
        /\ u[i] \notin {"<", ">", "\"", "'"}
        /\ u[i] = "&" => \E e \in Entities :
                            /\ i + Len(e) - 1 <= Len(u)
                            /\ SubSeq(u, i, i + Len(e) - 1) = e

SafeText(t) == \A i \in DOMAIN t : SafeUnit(t[i].u)

SafeRow(r) == \A i \in DOMAIN r : SafeText(r[i])

SafeCard(c) ==
    /\ SafeText(c.badge) /\ SafeText(c.name) /\ SafeText(c.mime) /\ SafeText(c.href)
    /\ SafeText(c.prev.src) /\ SafeText(c.prev.alt) /\ SafeText(c.prev.body)
    /\ SafeRow(c.prev.head)
    /\ \A i \in DOMAIN c.prev.rows : SafeRow(c.prev.rows[i])

\* number of characters of the raw text t before run i
RECURSIVE Before(_, _)
Before(t, i) == IF i <= 1 THEN 0 ELSE Before(t, i - 1) + t[i - 1].n

Clamp(x, hi) == IF x < 0 THEN 0 ELSE IF x > hi THEN hi ELSE x

\* the first k characters of the raw text t, run by run
FirstChars(t, k) ==
    [i \in DOMAIN t |-> [u |-> t[i].u, n |-> Clamp(k - Before(t, i), t[i].n)]]

SameBase(i, j) == BaseName(copied[i][1]) = BaseName(copied[j][1])

\* the newest entry of the copy log, when this step added one
Copying == Len(copied') = Len(copied) + 1
NewSrc == copied'[Len(copied')][1]
NewDst == copied'[Len(copied')][2]

-----------------------------------------------------------------------------
(* Properties *)

\* C1: when main() has finished on a source folder holding N regular files,
\* docs/files holds exactly N entries (their names are distinct by
\* construction of a directory).
C1_ExactlyN ==
    (pc = "done" /\ srcExists) =>
        Cardinality(DOMAIN files) = Cardinality(DOMAIN srcTree)

\* C2, as stated, in a first run into an empty docs/files: of two source
\* files with the same base name, the first in sorted order is copied under
\* the base name and the second under {stem}_1{suffix}.
C2_SecondGetsSuffixOne ==
    (pc = "done" /\ run = 1 /\ prevFiles = Empty) =>
        \A i \in DOMAIN copied, j \in DOMAIN copied :
            (i < j /\ SameBase(i, j)
               /\ \A k \in 1..(j - 1) : k # i => ~SameBase(k, j)) =>
                /\ copied[i][2] = BaseName(copied[i][1])
                /\ copied[j][2] = SuffixedName(BaseName(copied[j][1]), 1)

\* C2, amended: every copy step writes the source file under its base name
\* when that name is not present in docs/files, and otherwise under
\* {stem}_{n}{suffix} for the smallest n >= 1 whose name is not present; two
\* source files with the same base name both end up in docs/files, under
\* different names, each holding its source's content.
C2_SmallestFreeSuffix ==
    /\ [][Copying =>
            LET name == BaseName(NewSrc)
            IN  IF name \notin DOMAIN files THEN NewDst = name
                ELSE \E n \in 1..(Cardinality(DOMAIN files) + 1) :
                        /\ NewDst = SuffixedName(name, n)
                        /\ NewDst \notin DOMAIN files
                        /\ \A m \in 1..(n - 1) : SuffixedName(name, m) \in DOMAIN files]_vars
    /\ [](\A i \in DOMAIN copied, j \in DOMAIN copied :
            (i < j /\ SameBase(i, j)) =>
                /\ copied[i][2] # copied[j][2]
                /\ copied[i][2] \in DOMAIN files /\ copied[j][2] \in DOMAIN files
                /\ files[copied[i][2]] = srcTree[copied[i][1]]
                /\ files[copied[j][2]] = srcTree[copied[j][1]])

\* a third file of the same base name was copied under {stem}_2{suffix}
C2_Witness ==
    \E i \in DOMAIN copied :
        /\ copied[i][2] = SuffixedName(BaseName(copied[i][1]), 2)
        /\ \E j \in 1..(i - 1) : SameBase(j, i)

\* C3: after a second run of main() on the unchanged source folder, docs/files
\* holds the same names with the same contents as after the first run.
C3_SecondRunSameFiles ==
    (pc = "done" /\ run >= 2 /\ srcExists) => files = prevFiles

\* C4: when the source folder does not exist, main() writes the page that
\* shows the (escaped) source path, prints the not-found line and returns;
\* docs/files stays as it was and nothing is copied.
C4_MissingSource ==
    (~srcExists /\ pc # "start") =>
        /\ files = prevFiles
        /\ copied = <<>> /\ cards = <<>>
        /\ pc = "done" =>
            /\ page.kind = "notfound"
            /\ page.src = Escaped(StrText(srcDir))
            /\ page.cards = <<>>
            /\ stdout[Len(stdout)] = <<"Source folder not found", srcDir>>

\* the not-found page was written next to a docs/files that already held a file
C4_Witness ==
    /\ ~srcExists /\ pc = "done" /\ page.kind = "notfound"
    /\ files # Empty
    /\ srcDir = <<"<", "&", ">">>

\* C5: every place of the page that carries a file name or file content
\* carries it with & < > " ' replaced by their entities.
C5_AllEscaped ==
    /\ SafeText(page.src)
    /\ \A i \in DOMAIN page.cards : SafeCard(page.cards[i])

\* C6: the gallery page has one card per file copied in this run, in the
\* sorted order of the source paths; each card's download link names the
\* destination written for that source file, which holds the source's
\* content; with no file the grid is the "no files" note.
C6_OneCardPerCopy ==
    (pc = "done" /\ srcExists) =>
        /\ page.kind = "gallery"
        /\ Len(page.cards) = Cardinality(DOMAIN srcTree)
        /\ Len(copied) = Len(page.cards)
        /\ {copied[k][1] : k \in DOMAIN copied} = DOMAIN srcTree
        /\ \A k \in 1..(Len(copied) - 1) : PathLess(copied[k][1], copied[k + 1][1])
        /\ \A k \in DOMAIN copied :
            /\ page.cards[k].href = Literal("./files/") \o StrText(copied[k][2])
            /\ copied[k][2] \in DOMAIN files \ DOMAIN prevFiles
            /\ files[copied[k][2]] = srcTree[copied[k][1]]
        /\ \A k \in DOMAIN copied, l \in DOMAIN copied :
            k # l => copied[k][2] # copied[l][2]
        /\ page.note <=> (DOMAIN srcTree = {})

\* a page of three cards, one of them for a renamed destination
C6_Witness ==
    /\ pc = "done" /\ page.kind = "gallery" /\ Len(page.cards) = 3
    /\ \E k \in DOMAIN copied : copied[k][2] # BaseName(copied[k][1])

\* an empty source folder gave the note and no card
C6_WitnessEmpty ==
    pc = "done" /\ page.kind = "gallery" /\ page.note /\ page.cards = <<>>

\* C7: the csv table has exactly min(d, 30) body rows, the first min(d, 30)
\* data rows of the file as read by the attempt that succeeded, and the note
\* states that number.
C7_RowCap ==
    (pc = "return" /\ result.kind = "table") =>
        /\ result.note <= CsvRowCap
        /\ \E v \in {arg.utf8, arg.sig} :
            LET d == IF v.recs = <<>> THEN 0 ELSE Len(v.recs) - 1
                m == Min(d, CsvRowCap)
            IN  /\ result.note = m
                /\ Len(result.rows) = m
                /\ \A i \in 1..m :
                      result.rows[i] =
                          [c \in DOMAIN v.recs[i + 1] |-> Escaped(v.recs[i + 1][c])]


\* C8: a json file that fails to parse gets the preview <pre> of its escaped
\* first 200,000 characters, and the run goes on: the file after it is copied
\* and carded and the page is written.
C8_JsonFallback ==
    \A k \in DOMAIN cards :
        (copied[k][1] = JsonPath /\ ~loads(srcTree[JsonPath].text).ok) =>
            LET raw == srcTree[JsonPath].text
            IN  /\ cards[k].prev.kind = "pre"
                /\ Norm(cards[k].prev.body) = Norm(Escaped(FirstChars(raw, JsonCharCap)))
                /\ TLen(FirstChars(raw, JsonCharCap)) = Min(TLen(raw), JsonCharCap)
                /\ pc = "done" =>
                    /\ page.kind = "gallery"
                    /\ Len(page.cards) = 2
                    /\ page.cards[k] = cards[k]
                    /\ copied[2][1] = AfterJsonPath
                    /\ copied[2][2] \in DOMAIN files

\* a json text longer than the cap that does not parse was cut and the page written
C8_Witness ==
    /\ pc = "done" /\ srcExists /\ page.kind = "gallery"
    /\ ~loads(srcTree[JsonPath].text).ok
    /\ TLen(srcTree[JsonPath].text) > JsonCharCap
    /\ TLen(FirstChars(srcTree[JsonPath].text, JsonCharCap)) = JsonCharCap
    /\ page.cards[1].prev.kind = "pre"

\* C9: a step never removes or changes an entry of docs/files, and a copy
\* step adds exactly one new entry.
C9_CopyOnlyAdds ==
    [][/\ \A x \in DOMAIN files : x \in DOMAIN files' /\ files'[x] = files[x]
       /\ Copying =>
            /\ Cardinality(DOMAIN files') = Cardinality(DOMAIN files) + 1
            /\ NewDst \notin DOMAIN files
            /\ files'[NewDst] = srcTree[NewSrc]]_vars

\* a copy was made under a new name while docs/files already held the base
\* name from before this run
C9_Witness ==
    /\ pc = "loop" /\ prevFiles # Empty
    /\ \E k \in DOMAIN copied :
        /\ BaseName(copied[k][1]) \in DOMAIN prevFiles
        /\ copied[k][2] # BaseName(copied[k][1])
        /\ files[BaseName(copied[k][1])] = prevFiles[BaseName(copied[k][1])]

\* the indices k of B, KB, MB, GB, TB at which n / 1024^k < 1024
UnitsBelowStep(n) == {k \in 0..4 : \A i \in DOMAIN n : i > k + 1 => n[i] = 0}

UnitIndex(n) ==
    IF UnitsBelowStep(n) = {} THEN 4
    ELSE CHOOSE k \in UnitsBelowStep(n) : \A l \in UnitsBelowStep(n) : k <= l

\* C10: human_size(n) returns a result for every n >= 0; its unit is the one
\* at the smallest index k with n / 1024^k < 1024, or TB when there is none,
\* and the number shown is n / 1024^k to one decimal.
C10_UnitChoice ==
    pc = "return" =>
        LET k == UnitIndex(arg)
            x == [d |-> arg, k |-> k]
            floor10 == IntPart(x, k + 1) * 10 + MulTen(arg, k, 1, 0)[1]
            shown == result.int * 10 + result.tenth
        IN  /\ result # NoResult
            /\ result.unit = units[k + 1]
            /\ result.tenth \in 0..9
            /\ shown \in {floor10, floor10 + 1}

\* a byte count of 1024^5 or more was labelled TB
C10_Witness ==
    /\ pc = "return" /\ UnitsBelowStep(arg) = {}
    /\ result.unit = "TB" /\ result.int >= UnitStep

====
